---------------------------- MODULE Spec2Model ----------------------------
(***************************************************************************)
(* The live-invalidatable ARA audio readers of juce_ARAAudioReaders.cpp:   *)
(* ARAAudioSourceReader, ARAPlaybackRegionReader, ARARegionSequenceReader. *)
(*                                                                         *)
(* One audio thread issues readSamples; control threads deliver the host's *)
(* lifecycle notifications and run the destructors.  Every lock operation  *)
(* and every access to a field that another thread may touch is a step of  *)
(* its own, so that all interleavings of a read with a handler are         *)
(* explored.                                                               *)
(***************************************************************************)
EXTENDS Integers, Sequences, FiniteSets, TLC

\* ------------------------------------------------------------------ bounds
MaxHeldReads   == 2     \* read-lock entries one thread may accumulate
BufFrames      == 2     \* frames in a caller's destination buffer
MaxDestChannels == 2    \* destination channels a caller passes
SrcChannels    == 2     \* channel count of the audio source (numChannels)
MaxRegionsInList == 2   \* regions handed to a region reader's constructor
MaxEndTime     == 2     \* latest end of a region in playback time, seconds

AudioThread == "audio"
HostThread  == "host"       \* delivers enable/disable and destruction of the source
OtherThread == "other"      \* delivers content updates, deletes the reader
CtlThreads  == {HostThread, OtherThread}
Threads     == {AudioThread} \cup CtlThreads
NoThread    == "none"

ZeroByte    == "00"     \* a byte written by zeromem
StaleByte   == "xx"     \* a byte left in a buffer by its previous user
ContentByte == "dd"     \* a byte written by the host accessor

VARIABLES
    \* ---- the host's audio source
    srcAlive,               \* the ARAAudioSource object exists
    sampleAccessEnabled,    \* ARAAudioSource::isSampleAccessEnabled()
    srcListener,            \* the reader is in the source's listener list
    \* ---- ARAAudioSourceReader
    readerAlive,            \* the reader object exists (destructor not finished)
    bitsPerSample,          \* 32 or 64
    audioSourceBeingRead,   \* "src" or "null"
    araHostReader,          \* "null" or "reader", a HostAudioReader
    lock,                   \* ReadWriteLock
    dummySize,              \* size in bytes of the thread-local dummyBuffer
    \* ---- a readSamples call on the audio thread
    rpc,                    \* position of the call
    rargs,                  \* arguments of the call and what held when it began
    dest,                   \* destSamples: the caller's channel buffers
    tmpPtrs,                \* targets handed to the accessor
    rret,                   \* "none", "true" or "false"
    \* ---- control threads
    ctl,                    \* position and arguments of each control thread
    disabledOnce,           \* a transition to disabled has completed
    \* ---- observations
    srcDerefAfterDestroy,   \* the reader dereferenced the destroyed source
    invalidatedByUpdate,    \* the accessor was reset by a content update
                            \* that changed the signal, and not recreated
    \* ---- the host's region sequence and playback regions
    seqAlive,               \* the ARARegionSequence object exists
    seqRegions,             \* regionSequence->getPlaybackRegions()
    seqListener,            \* the reader is in the sequence's listener list
    regionAlive,            \* region -> its destruction was not yet announced
    regionListeners,        \* the regions the reader is a listener of
    \* ---- ARARegionSequenceReader (an ARAPlaybackRegionReader) and renderer
    prReaderAlive,          \* the reader object exists
    sequence,               \* "seq" or "null"
    rendererAlive,          \* playbackRenderer was not deleted
    rendererRegions,        \* region -> times it is in the renderer's list
    rendererPrepared,       \* prepareToPlay without a later releaseResources
    prLock,                 \* the reader's ReadWriteLock
    \* ---- a readSamples call on the audio thread
    ppc,                    \* position of the call
    pargs,                  \* arguments, loop variables, what held at start
    pdest,                  \* writes made to each destination channel
    pret,                   \* "none", "true" or "false"
    \* ---- control threads
    pctl,
    \* ---- observations
    removedAbsent,          \* removePlaybackRegion of a region not registered
    addedTwice,             \* addPlaybackRegion of a region already registered
    staleDeref              \* a destroyed sequence or region was dereferenced

srVars == << srcAlive, sampleAccessEnabled, srcListener, readerAlive,
             bitsPerSample, audioSourceBeingRead, araHostReader,
             lock, dummySize, rpc, rargs, dest, tmpPtrs,
             rret, ctl, disabledOnce, srcDerefAfterDestroy,
             invalidatedByUpdate >>

prVars == << seqAlive, seqRegions, seqListener, regionAlive, regionListeners,
             prReaderAlive, sequence, rendererAlive, rendererRegions,
             rendererPrepared, prLock, ppc, pargs, pdest, pret, pctl,
             removedAbsent, addedTwice, staleDeref >>

\* ---- ARAPlaybackRegionReader::ARAPlaybackRegionReader while it runs
VARIABLES
    playbackRegions,        \* the constructor's argument: regions in order
    ctorPc,                 \* "loop" or "done"
    ctorIndex,              \* regions the loop has visited
    sampleRate,             \* AudioFormatReader::sampleRate
    numChannels,            \* AudioFormatReader::numChannels
    lengthInSamples,        \* AudioFormatReader::lengthInSamples
    ctorAdded,              \* regions given to the renderer and listened to
    preparedWith            \* arguments of prepareToPlay, or << >>

fmtVars == << playbackRegions, ctorPc, ctorIndex, sampleRate, numChannels,
              lengthInSamples, ctorAdded, preparedWith >>

vars == << srVars, prVars, fmtVars >>

\* ------------------------------------------------------- juce::ReadWriteLock
\* A lock is [readers : thread -> entries held, numWriters, writerThreadId,
\* numWaitingWriters].  Re-entrant per thread; a writer excludes the readers
\* of every other thread, and a pending writer turns new readers away.
NewLock ==
    [ readers |-> [t \in Threads |-> 0], numWriters |-> 0,
      writerThreadId |-> NoThread, numWaitingWriters |-> 0 ]

OtherReaders(L, t) == { u \in Threads \ {t} : L.readers[u] > 0 }

\* ReadWriteLock::tryEnterRead succeeds
TryEnterReadOK(L, t) ==
    \/ L.readers[t] > 0
    \/ L.numWriters + L.numWaitingWriters = 0
    \/ (L.writerThreadId = t /\ L.numWriters > 0)

EnterRead(L, t) == [L EXCEPT !.readers[t] = @ + 1]

ExitRead(L, t) == [L EXCEPT !.readers[t] = IF @ > 0 THEN @ - 1 ELSE 0]

\* ReadWriteLock::tryEnterWriteInternal succeeds
CanEnterWrite(L, t) ==
    \/ (\A u \in Threads : L.readers[u] = 0) /\ L.numWriters = 0
    \/ L.writerThreadId = t
    \/ (L.readers[t] > 0 /\ OtherReaders(L, t) = {})

EnterWrite(L, t) ==
    [L EXCEPT !.writerThreadId = t, !.numWriters = @ + 1]

ExitWrite(L) ==
    IF L.numWriters = 0 THEN L
    ELSE IF L.numWriters = 1
         THEN [L EXCEPT !.numWriters = 0, !.writerThreadId = NoThread]
         ELSE [L EXCEPT !.numWriters = @ - 1]

StartWaiting(L) == [L EXCEPT !.numWaitingWriters = @ + 1]
StopWaiting(L)  == [L EXCEPT !.numWaitingWriters = @ - 1]

\* ----------------------------------------------------------- sample buffers
\* A destination channel is [isNull, bytes]; bytes are indexed from 1, so the
\* byte at C offset k is bytes[k + 1].
BytesPerSample(bits) == bits \div 8

NullChannel == [isNull |-> TRUE, bytes |-> << >>]

FreshChannel(bits) ==
    [isNull |-> FALSE,
     bytes  |-> [i \in 1 .. BufFrames * BytesPerSample(bits) |-> StaleByte]]

\* memset-like write of `count` bytes of value v at byte offset `offset`
FillBytes(bytes, offset, count, v) ==
    [i \in 1 .. Len(bytes) |->
        IF i > offset /\ i <= offset + count THEN v ELSE bytes[i]]

\* the caller's buffers for a call with numDestChannels channels, those in
\* `nulls` being nullptr
FreshDest(bits, numDestChannels, nulls) ==
    [c \in 1 .. numDestChannels |->
        IF c \in nulls THEN NullChannel ELSE FreshChannel(bits)]

NoArgs == [numDestChannels |-> 0, startOffsetInDestBuffer |-> 0,
           numSamples |-> 0, writerAtStart |-> FALSE,
           transitionAtStart |-> FALSE,
           sourceGoneAtStart |-> FALSE, cause |-> "none"]

IdleCtl == [pc |-> "idle", enable |-> FALSE, flagsUnchanged |-> FALSE]

\* ------------------------------------------- ARAAudioSourceReader helpers
\* recreate() that creates nothing
recreateNothing(source, current) == current

\* recreate(): the value of araHostReader afterwards
recreate(source, current) == IF source = "null" THEN current ELSE "reader"

\* invalidate(): araHostReader.reset()
invalidate == "null"

\* ------------------------------------------------------------------- Init
\* ARAAudioSourceReader::ARAAudioSourceReader has run: the reader listens to
\* the source and holds an accessor exactly if access was enabled.
InitSource ==
    /\ srcAlive = TRUE
    /\ sampleAccessEnabled \in BOOLEAN
    /\ srcListener = TRUE
    /\ readerAlive = TRUE
    /\ bitsPerSample \in {32, 64}
    /\ audioSourceBeingRead = "src"
    /\ araHostReader = (IF sampleAccessEnabled THEN recreate("src", "null")
                        ELSE "null")
    /\ lock = NewLock
    /\ dummySize = 0
    /\ rpc = "idle"
    /\ rargs = NoArgs
    /\ dest = << >>
    /\ tmpPtrs = << >>
    /\ rret = "none"
    /\ ctl = [t \in CtlThreads |-> IdleCtl]
    /\ disabledOnce = FALSE
    /\ srcDerefAfterDestroy = FALSE
    /\ invalidatedByUpdate = FALSE

\* ------------------------------------------------- control-thread plumbing
SetCtl(t, rec) == ctl' = [ctl EXCEPT ![t] = rec]
GoTo(t, p)     == ctl' = [ctl EXCEPT ![t].pc = p]

AllIdle       == \A u \in CtlThreads : ctl[u].pc = "idle"

InTransition(u) == ctl[u].pc \in {"will", "will_wait", "flag", "did"}
\* willEnableAudioSourceSamplesAccess has returned and the matching
\* didEnableAudioSourceSamplesAccess has not
InTransitionWindow == \E u \in CtlThreads : ctl[u].pc \in {"flag", "did"}
\* the thread is in a section the code runs between entering and leaving the
\* write lock
InWriteSection(u) ==
    ctl[u].pc \in {"flag", "did", "upd_locked", "wds_locked", "dtor_locked"}
InDestructor(u) == ctl[u].pc \in {"dtor", "dtor_wait", "dtor_locked"}
InSourceDestroy(u) == ctl[u].pc \in {"wds", "wds_wait", "wds_locked"}

readVars == << rpc, rargs, dest, tmpPtrs, rret, dummySize >>

\* ------------------------------------------- enable / disable of the source
\* The host starts changing sample access of the source and is about to
\* notify its listeners.
HostBeginEnable(t) ==
    /\ ctl[t].pc = "idle"
    /\ srcAlive /\ srcListener /\ readerAlive
    /\ \A u \in CtlThreads : ~InTransition(u) /\ ~InDestructor(u)
    /\ SetCtl(t, [pc |-> "will", enable |-> ~sampleAccessEnabled,
                  flagsUnchanged |-> FALSE])
    /\ UNCHANGED << srcAlive, sampleAccessEnabled, srcListener, readerAlive,
                    bitsPerSample, audioSourceBeingRead, araHostReader, lock,
                    disabledOnce, srcDerefAfterDestroy, invalidatedByUpdate,
                    readVars, prVars, fmtVars >>

\* willEnableAudioSourceSamplesAccess without its lock.enterWrite()
willEnableWithoutLock(t) ==
    /\ ctl[t].pc = "will"
    /\ araHostReader' = (IF ~ctl[t].enable THEN invalidate ELSE araHostReader)
    /\ GoTo(t, "flag")
    /\ UNCHANGED << srcAlive, sampleAccessEnabled, srcListener, readerAlive,
                    bitsPerSample, audioSourceBeingRead, lock, disabledOnce,
                    srcDerefAfterDestroy, invalidatedByUpdate, readVars,
                    prVars, fmtVars >>

\* willEnableAudioSourceSamplesAccess with a ScopedWriteLock, released on
\* return, in place of lock.enterWrite()
willEnableScopedLock(t) ==
    /\ ctl[t].pc \in {"will", "will_wait"}
    /\ IF CanEnterWrite(lock, t)
       THEN /\ lock' = (IF ctl[t].pc = "will_wait"
                        THEN StopWaiting(lock) ELSE lock)
            /\ araHostReader' = (IF ~ctl[t].enable THEN invalidate
                                 ELSE araHostReader)
            /\ GoTo(t, "flag")
       ELSE /\ ctl[t].pc = "will"
            /\ lock' = StartWaiting(lock)
            /\ GoTo(t, "will_wait")
            /\ UNCHANGED araHostReader
    /\ UNCHANGED << srcAlive, sampleAccessEnabled, srcListener, readerAlive,
                    bitsPerSample, audioSourceBeingRead, disabledOnce,
                    srcDerefAfterDestroy, invalidatedByUpdate, readVars, prVars, fmtVars >>

\* willEnableAudioSourceSamplesAccess: lock.enterWrite(), which blocks while
\* another thread reads or writes; then invalidate() when disabling.
willEnableAudioSourceSamplesAccess(t) ==
    /\ ctl[t].pc \in {"will", "will_wait"}
    /\ IF CanEnterWrite(lock, t)
       THEN /\ lock' = EnterWrite(IF ctl[t].pc = "will_wait"
                                  THEN StopWaiting(lock) ELSE lock, t)
            /\ araHostReader' = (IF ~ctl[t].enable THEN invalidate
                                 ELSE araHostReader)
            /\ GoTo(t, "flag")
       ELSE /\ ctl[t].pc = "will"
            /\ lock' = StartWaiting(lock)
            /\ GoTo(t, "will_wait")
            /\ UNCHANGED araHostReader
    /\ UNCHANGED << srcAlive, sampleAccessEnabled, srcListener, readerAlive,
                    bitsPerSample, audioSourceBeingRead, disabledOnce,
                    srcDerefAfterDestroy, invalidatedByUpdate, readVars, prVars, fmtVars >>

\* Between the two notifications the host changes the source's flag.
HostSetSampleAccessEnabled(t) ==
    /\ ctl[t].pc = "flag"
    /\ sampleAccessEnabled' = ctl[t].enable
    /\ GoTo(t, "did")
    /\ UNCHANGED << srcAlive, srcListener, readerAlive, bitsPerSample,
                    audioSourceBeingRead, araHostReader, lock, disabledOnce,
                    srcDerefAfterDestroy, invalidatedByUpdate, readVars, prVars, fmtVars >>

\* didEnableAudioSourceSamplesAccess: recreate() when enabling, then
\* lock.exitWrite().
didEnableAudioSourceSamplesAccess(t) ==
    /\ ctl[t].pc = "did"
    /\ IF ctl[t].enable
       THEN /\ araHostReader' = recreate(audioSourceBeingRead, araHostReader)
            /\ invalidatedByUpdate' =
                   (invalidatedByUpdate /\ araHostReader' = "null")
       ELSE UNCHANGED << araHostReader, invalidatedByUpdate >>
    /\ disabledOnce' = (disabledOnce \/ ~ctl[t].enable)
    /\ lock' = ExitWrite(lock)
    /\ SetCtl(t, IdleCtl)
    /\ UNCHANGED << srcAlive, sampleAccessEnabled, srcListener, readerAlive,
                    bitsPerSample, audioSourceBeingRead,
                    srcDerefAfterDestroy, readVars, prVars, fmtVars >>

\* ------------------------------------------------------------ content update
\* The host reports changed content of the source, with or without
\* kARAContentUpdateSignalScopeRemainsUnchanged.
HostUpdateContent(t) ==
    /\ ctl[t].pc = "idle"
    /\ srcAlive /\ srcListener /\ readerAlive
    /\ \A u \in CtlThreads : ~InDestructor(u) /\ ~InSourceDestroy(u)
    /\ \E unchanged \in BOOLEAN :
          SetCtl(t, [pc |-> "upd", enable |-> FALSE,
                     flagsUnchanged |-> unchanged])
    /\ UNCHANGED << srcAlive, sampleAccessEnabled, srcListener, readerAlive,
                    bitsPerSample, audioSourceBeingRead, araHostReader, lock,
                    disabledOnce, srcDerefAfterDestroy, invalidatedByUpdate,
                    readVars, prVars, fmtVars >>

\* doUpdateAudioSourceContent that goes on to invalidate() without taking
\* the write lock
doUpdateAudioSourceContentNoLock(t) ==
    /\ ctl[t].pc \in {"upd", "upd_wait"}
    /\ IF ctl[t].flagsUnchanged
       THEN SetCtl(t, IdleCtl)
       ELSE GoTo(t, "upd_locked")
    /\ UNCHANGED << srcAlive, sampleAccessEnabled, srcListener, readerAlive,
                    bitsPerSample, audioSourceBeingRead, araHostReader, lock,
                    disabledOnce, srcDerefAfterDestroy, invalidatedByUpdate,
                    readVars, prVars, fmtVars >>

\* doUpdateAudioSourceContent without the test of the flags: every update
\* goes on to the ScopedWriteLock
doUpdateAudioSourceContentIgnoresFlags(t) ==
    /\ ctl[t].pc \in {"upd", "upd_wait"}
    /\ IF CanEnterWrite(lock, t)
       THEN /\ lock' = EnterWrite(IF ctl[t].pc = "upd_wait"
                                  THEN StopWaiting(lock) ELSE lock, t)
            /\ GoTo(t, "upd_locked")
       ELSE /\ ctl[t].pc = "upd"
            /\ lock' = StartWaiting(lock)
            /\ GoTo(t, "upd_wait")
    /\ UNCHANGED << srcAlive, sampleAccessEnabled, srcListener, readerAlive,
                    bitsPerSample, audioSourceBeingRead, araHostReader,
                    disabledOnce, srcDerefAfterDestroy, invalidatedByUpdate,
                    readVars, prVars, fmtVars >>

\* doUpdateAudioSourceContent up to the ScopedWriteLock: return at once when
\* the signal is unchanged, else enter the write lock (blocking).
doUpdateAudioSourceContent(t) ==
    /\ ctl[t].pc \in {"upd", "upd_wait"}
    /\ IF ctl[t].flagsUnchanged
       THEN /\ SetCtl(t, IdleCtl)
            /\ UNCHANGED lock
       ELSE IF CanEnterWrite(lock, t)
       THEN /\ lock' = EnterWrite(IF ctl[t].pc = "upd_wait"
                                  THEN StopWaiting(lock) ELSE lock, t)
            /\ GoTo(t, "upd_locked")
       ELSE /\ ctl[t].pc = "upd"
            /\ lock' = StartWaiting(lock)
            /\ GoTo(t, "upd_wait")
    /\ UNCHANGED << srcAlive, sampleAccessEnabled, srcListener, readerAlive,
                    bitsPerSample, audioSourceBeingRead, araHostReader,
                    disabledOnce, srcDerefAfterDestroy, invalidatedByUpdate,
                    readVars, prVars, fmtVars >>

\* doUpdateAudioSourceContent under the lock: invalidate(), and the scoped
\* lock is released on return.
doUpdateAudioSourceContentLocked(t) ==
    /\ ctl[t].pc = "upd_locked"
    /\ araHostReader' = invalidate
    /\ invalidatedByUpdate' = (invalidatedByUpdate \/ ~ctl[t].flagsUnchanged)
    /\ lock' = ExitWrite(lock)
    /\ SetCtl(t, IdleCtl)
    /\ UNCHANGED << srcAlive, sampleAccessEnabled, srcListener, readerAlive,
                    bitsPerSample, audioSourceBeingRead, disabledOnce,
                    srcDerefAfterDestroy, readVars, prVars, fmtVars >>

\* -------------------------------------------------- destruction of the source
\* The host is about to destroy the source.  With no reader listening the
\* source simply goes away.
HostDestroySource(t) ==
    /\ ctl[t].pc = "idle"
    /\ srcAlive
    /\ AllIdle
    /\ IF srcListener
       THEN GoTo(t, "wds") /\ UNCHANGED srcAlive
       ELSE srcAlive' = FALSE /\ UNCHANGED ctl
    /\ UNCHANGED << sampleAccessEnabled, srcListener, readerAlive,
                    bitsPerSample, audioSourceBeingRead, araHostReader, lock,
                    disabledOnce, srcDerefAfterDestroy, invalidatedByUpdate,
                    readVars, prVars, fmtVars >>

\* willDestroyAudioSource up to the ScopedWriteLock: removeListener, then
\* enter the write lock (blocking).
willDestroyAudioSource(t) ==
    /\ ctl[t].pc \in {"wds", "wds_wait"}
    /\ srcListener' = FALSE
    /\ IF CanEnterWrite(lock, t)
       THEN /\ lock' = EnterWrite(IF ctl[t].pc = "wds_wait"
                                  THEN StopWaiting(lock) ELSE lock, t)
            /\ GoTo(t, "wds_locked")
       ELSE /\ ctl[t].pc = "wds"
            /\ lock' = StartWaiting(lock)
            /\ GoTo(t, "wds_wait")
    /\ UNCHANGED << srcAlive, sampleAccessEnabled, readerAlive,
                    bitsPerSample, audioSourceBeingRead, araHostReader,
                    disabledOnce, srcDerefAfterDestroy, invalidatedByUpdate,
                    readVars, prVars, fmtVars >>

\* willDestroyAudioSource that leaves audioSourceBeingRead set
willDestroyAudioSourceKeepsPointer(t) ==
    /\ ctl[t].pc = "wds_locked"
    /\ araHostReader' = invalidate
    /\ lock' = ExitWrite(lock)
    /\ srcAlive' = FALSE
    /\ SetCtl(t, IdleCtl)
    /\ UNCHANGED << sampleAccessEnabled, srcListener, readerAlive,
                    bitsPerSample, audioSourceBeingRead, disabledOnce,
                    srcDerefAfterDestroy, invalidatedByUpdate, readVars,
                    prVars, fmtVars >>

\* willDestroyAudioSource under the lock: invalidate(), clear the source
\* pointer, release the scoped lock; the host then deletes the source.
willDestroyAudioSourceLocked(t) ==
    /\ ctl[t].pc = "wds_locked"
    /\ araHostReader' = invalidate
    /\ audioSourceBeingRead' = "null"
    /\ lock' = ExitWrite(lock)
    /\ srcAlive' = FALSE
    /\ SetCtl(t, IdleCtl)
    /\ UNCHANGED << sampleAccessEnabled, srcListener, readerAlive,
                    bitsPerSample, disabledOnce, srcDerefAfterDestroy,
                    invalidatedByUpdate, readVars, prVars, fmtVars >>

\* -------------------------------------------------- destruction of the reader
\* The owner of the reader deletes it; no new read is issued from here on.
BeginDestroyReader(t) ==
    /\ ctl[t].pc = "idle"
    /\ readerAlive
    /\ AllIdle
    /\ GoTo(t, "dtor")
    /\ UNCHANGED << srcAlive, sampleAccessEnabled, srcListener, readerAlive,
                    bitsPerSample, audioSourceBeingRead, araHostReader, lock,
                    disabledOnce, srcDerefAfterDestroy, invalidatedByUpdate,
                    readVars, prVars, fmtVars >>

\* ~ARAAudioSourceReader up to the ScopedWriteLock: removeListener on the
\* source if the pointer is set, then enter the write lock (blocking).
DestroyReader(t) ==
    /\ ctl[t].pc \in {"dtor", "dtor_wait"}
    /\ IF audioSourceBeingRead # "null"
       THEN /\ srcListener' = FALSE
            /\ srcDerefAfterDestroy' = (srcDerefAfterDestroy \/ ~srcAlive)
       ELSE UNCHANGED << srcListener, srcDerefAfterDestroy >>
    /\ IF CanEnterWrite(lock, t)
       THEN /\ lock' = EnterWrite(IF ctl[t].pc = "dtor_wait"
                                  THEN StopWaiting(lock) ELSE lock, t)
            /\ GoTo(t, "dtor_locked")
       ELSE /\ ctl[t].pc = "dtor"
            /\ lock' = StartWaiting(lock)
            /\ GoTo(t, "dtor_wait")
    /\ UNCHANGED << srcAlive, sampleAccessEnabled, readerAlive,
                    bitsPerSample, audioSourceBeingRead, araHostReader,
                    disabledOnce, invalidatedByUpdate, readVars, prVars, fmtVars >>

\* ~ARAAudioSourceReader under the lock: invalidate(), release, object gone.
DestroyReaderLocked(t) ==
    /\ ctl[t].pc = "dtor_locked"
    /\ araHostReader' = invalidate
    /\ lock' = ExitWrite(lock)
    /\ readerAlive' = FALSE
    /\ SetCtl(t, IdleCtl)
    /\ UNCHANGED << srcAlive, sampleAccessEnabled, srcListener,
                    bitsPerSample, audioSourceBeingRead, disabledOnce,
                    srcDerefAfterDestroy, invalidatedByUpdate, readVars, prVars, fmtVars >>

\* ------------------------------- readers that come and sources that go
\* inside an enable / disable transition
\* ARAAudioSourceReader::ARAAudioSourceReader: a reader is constructed on the
\* source (the former reader being gone): it takes the source pointer, adds
\* itself to the source's listeners and, if access is enabled at this
\* moment, calls recreate().  Its lock and its accessor are new.
ARAAudioSourceReader(t) ==
    /\ ctl[t].pc = "idle"
    /\ ~readerAlive
    /\ srcAlive
    /\ rpc = "idle"
    /\ readerAlive' = TRUE
    /\ audioSourceBeingRead' = "src"
    /\ srcListener' = TRUE
    /\ lock' = NewLock
    /\ araHostReader' = (IF sampleAccessEnabled THEN recreate("src", "null")
                         ELSE "null")
    /\ invalidatedByUpdate' = FALSE
    /\ UNCHANGED << srcAlive, sampleAccessEnabled, bitsPerSample, ctl,
                    disabledOnce, srcDerefAfterDestroy, readVars,
                    prVars, fmtVars >>

\* The host starts changing sample access of a source nobody listens to:
\* willEnableAudioSourceSamplesAccess is delivered to no reader.
HostBeginEnableUnobserved(t) ==
    /\ ctl[t].pc = "idle"
    /\ srcAlive /\ ~srcListener
    /\ \A u \in CtlThreads : ~InTransition(u) /\ ~InDestructor(u)
    /\ SetCtl(t, [pc |-> "flag", enable |-> ~sampleAccessEnabled,
                  flagsUnchanged |-> FALSE])
    /\ UNCHANGED << srcAlive, sampleAccessEnabled, srcListener, readerAlive,
                    bitsPerSample, audioSourceBeingRead, araHostReader, lock,
                    disabledOnce, srcDerefAfterDestroy, invalidatedByUpdate,
                    readVars, prVars, fmtVars >>

\* The host ends the transition; the source has a listener, which gets
\* didEnableAudioSourceSamplesAccess.
HostEndEnable(t) ==
    /\ srcListener
    /\ didEnableAudioSourceSamplesAccess(t)

\* The host ends the transition of a source nobody listens to.
HostEndEnableUnobserved(t) ==
    /\ ctl[t].pc = "did"
    /\ ~srcListener
    /\ SetCtl(t, IdleCtl)
    /\ UNCHANGED << srcAlive, sampleAccessEnabled, srcListener, readerAlive,
                    bitsPerSample, audioSourceBeingRead, araHostReader, lock,
                    disabledOnce, srcDerefAfterDestroy, invalidatedByUpdate,
                    readVars, prVars, fmtVars >>

\* The host destroys the source inside a transition, on the thread that
\* makes the transition: a listener gets willDestroyAudioSource, and no
\* didEnableAudioSourceSamplesAccess follows for the source that is gone.
HostDestroySourceInTransition(t) ==
    /\ ctl[t].pc \in {"flag", "did"}
    /\ srcAlive
    /\ IF srcListener
       THEN GoTo(t, "wds") /\ UNCHANGED srcAlive
       ELSE srcAlive' = FALSE /\ SetCtl(t, IdleCtl)
    /\ UNCHANGED << sampleAccessEnabled, srcListener, readerAlive,
                    bitsPerSample, audioSourceBeingRead, araHostReader, lock,
                    disabledOnce, srcDerefAfterDestroy, invalidatedByUpdate,
                    readVars, prVars, fmtVars >>

\* ------------------------------------------- ARAAudioSourceReader::readSamples
\* destSize counted in samples instead of bytes
destSizeInSamples(bits, numSamples) == numSamples

destSize(bits, numSamples) == BytesPerSample(bits) * numSamples

bufferOffset(bits, startOffsetInDestBuffer) ==
    BytesPerSample(bits) * startOffsetInDestBuffer

\* the zeroing loop of the failure branch
ZeroDest(d, bits, numDestChannels, startOffsetInDestBuffer, numSamples) ==
    [c \in 1 .. Len(d) |->
        IF c <= numDestChannels /\ ~d[c].isNull
        THEN [d[c] EXCEPT !.bytes =
                 FillBytes(@, bufferOffset(bits, startOffsetInDestBuffer),
                           destSize(bits, numSamples), ZeroByte)]
        ELSE d[c]]

\* the loop that fills tmpPtrs: one target per channel of the source, the
\* caller's buffer moved on by bufferOffset or dummyBuffer.get().data(),
\* which is a null pointer when dummyDataIsNull
FillTmpPtrs(d, bits, numDestChannels, startOffsetInDestBuffer, dummyDataIsNull) ==
    [c \in 1 .. SrcChannels |->
        IF c <= numDestChannels /\ ~d[c].isNull
        THEN [kind |-> "dest", chan |-> c,
              offset |-> bufferOffset(bits, startOffsetInDestBuffer),
              isNull |-> FALSE]
        ELSE [kind |-> "dummy", chan |-> 0, offset |-> 0,
              isNull |-> dummyDataIsNull]]

\* dummyBuffer that is never resized
KeepDummy(size, ptrs, bits, numSamples) == size

\* dummyBuffer after the loop: resized when a channel needs it and it is
\* too small
GrowDummy(size, ptrs, bits, numSamples) ==
    IF (\E c \in 1 .. Len(ptrs) : ptrs[c].kind = "dummy")
       /\ destSize(bits, numSamples) > size
    THEN destSize(bits, numSamples)
    ELSE size

\* HostAudioReader::readAudioSamples succeeding: numSamples samples are
\* written at every target
HostWrite(d, ptrs, bits, numSamples) ==
    [c \in 1 .. Len(d) |->
        IF \E k \in 1 .. Len(ptrs) : ptrs[k].kind = "dest" /\ ptrs[k].chan = c
        THEN LET k == CHOOSE k \in 1 .. Len(ptrs) :
                          ptrs[k].kind = "dest" /\ ptrs[k].chan = c
             IN  [d[c] EXCEPT !.bytes =
                     FillBytes(@, ptrs[k].offset, destSize(bits, numSamples),
                               ContentByte)]
        ELSE d[c]]

ctlVars == << srcAlive, sampleAccessEnabled, srcListener, readerAlive,
              bitsPerSample, audioSourceBeingRead, araHostReader,
              ctl, disabledOnce, srcDerefAfterDestroy, invalidatedByUpdate >>

\* The call and its first test, lock.tryEnterRead(): on failure zero the
\* destination and return false.
readSamplesTryEnterRead ==
    /\ rpc = "idle"
    /\ readerAlive
    /\ \A u \in CtlThreads : ~InDestructor(u)
    /\ lock.readers[AudioThread] < MaxHeldReads
    /\ \E numDestChannels \in 1 .. MaxDestChannels,
          startOffsetInDestBuffer \in 0 .. BufFrames :
       \E nulls \in SUBSET (1 .. numDestChannels),
          numSamples \in 0 .. (BufFrames - startOffsetInDestBuffer) :
          LET fresh == FreshDest(bitsPerSample, numDestChannels, nulls)
              args  == [numDestChannels |-> numDestChannels,
                        startOffsetInDestBuffer |-> startOffsetInDestBuffer,
                        numSamples |-> numSamples,
                        writerAtStart |->
                            lock.numWriters + lock.numWaitingWriters > 0,
                        transitionAtStart |-> InTransitionWindow,
                        sourceGoneAtStart |-> ~srcAlive,
                        cause |-> "none"]
          IN  IF TryEnterReadOK(lock, AudioThread)
              THEN /\ lock' = EnterRead(lock, AudioThread)
                   /\ rargs' = args
                   /\ dest' = fresh
                   /\ rpc' = "check"
                   /\ UNCHANGED rret
              ELSE /\ rargs' = [args EXCEPT !.cause = "contended"]
                   /\ dest' = ZeroDest(fresh, bitsPerSample, numDestChannels,
                                       startOffsetInDestBuffer, numSamples)
                   /\ rret' = "false"
                   /\ rpc' = "done"
                   /\ UNCHANGED lock
    /\ UNCHANGED << tmpPtrs, dummySize, ctlVars, prVars, fmtVars >>

\* The second test, araHostReader == nullptr, made with the read lock held:
\* when it is null zero the destination and return false.
readSamplesCheckReader ==
    /\ rpc = "check"
    /\ IF araHostReader = "null"
       THEN /\ rargs' = [rargs EXCEPT !.cause = "noaccessor"]
            /\ dest' = ZeroDest(dest, bitsPerSample, rargs.numDestChannels,
                                rargs.startOffsetInDestBuffer,
                                rargs.numSamples)
            /\ rret' = "false"
            /\ rpc' = "done"
       ELSE /\ rpc' = "call"
            /\ UNCHANGED << rargs, dest, rret >>
    /\ UNCHANGED << lock, tmpPtrs, dummySize, ctlVars, prVars, fmtVars >>

\* Fill tmpPtrs and call araHostReader->readAudioSamples, which succeeds or
\* fails as the host decides.  data() of a vector that is still empty is a
\* null pointer or not, as the library chooses.
readSamplesCallHost ==
    /\ rpc = "call"
    /\ \E emptyDataIsNull \in BOOLEAN :
       LET kinds == FillTmpPtrs(dest, bitsPerSample, rargs.numDestChannels,
                                rargs.startOffsetInDestBuffer, FALSE)
           size  == GrowDummy(dummySize, kinds, bitsPerSample,
                              rargs.numSamples)
           ptrs  == FillTmpPtrs(dest, bitsPerSample, rargs.numDestChannels,
                                rargs.startOffsetInDestBuffer,
                                size = 0 /\ emptyDataIsNull)
       IN  /\ tmpPtrs' = ptrs
           /\ dummySize' = size
           /\ \E success \in BOOLEAN :
                 /\ rargs' = [rargs EXCEPT !.cause =
                                 IF success THEN "read" ELSE "hostfailed"]
                 /\ dest' = (IF success
                             THEN HostWrite(dest, ptrs, bitsPerSample,
                                            rargs.numSamples)
                             ELSE dest)
    /\ rpc' = "exit"
    /\ UNCHANGED << lock, rret, ctlVars, prVars, fmtVars >>

\* the return that leaves the read lock only when the accessor succeeded
readSamplesExitReadOnSuccess ==
    /\ rpc = "exit"
    /\ lock' = (IF rargs.cause = "read" THEN ExitRead(lock, AudioThread)
                ELSE lock)
    /\ rret' = (IF rargs.cause = "read" THEN "true" ELSE "false")
    /\ rpc' = "done"
    /\ UNCHANGED << rargs, dest, tmpPtrs, dummySize, ctlVars, prVars, fmtVars >>

\* lock.exitRead() and return the accessor's result.
readSamplesExitRead ==
    /\ rpc = "exit"
    /\ lock' = ExitRead(lock, AudioThread)
    /\ rret' = (IF rargs.cause = "read" THEN "true" ELSE "false")
    /\ rpc' = "done"
    /\ UNCHANGED << rargs, dest, tmpPtrs, dummySize, ctlVars, prVars, fmtVars >>

\* The caller takes the result.
readSamplesReturn ==
    /\ rpc = "done"
    /\ rpc' = "idle"
    /\ rargs' = NoArgs
    /\ dest' = << >>
    /\ tmpPtrs' = << >>
    /\ rret' = "none"
    /\ UNCHANGED << lock, dummySize, ctlVars, prVars, fmtVars >>

\* =========================================================================
\* ARAPlaybackRegionReader / ARARegionSequenceReader
\* =========================================================================
Regions == {"r1", "r2"}

\* the block size the constructor passes to prepareToPlay
MaxSamplesPerBlock == 16 * 1024

\* sample counts a caller asks for: short spans and spans of several blocks
ReadCounts ==
    (0 .. BufFrames)
        \cup {MaxSamplesPerBlock, MaxSamplesPerBlock + 1,
              2 * MaxSamplesPerBlock + 1}

NoPArgs == [numDestChannels |-> 0, startOffsetInDestBuffer |-> 0,
            startSampleInFile |-> 0, numSamples |-> 0,
            curOffset |-> 0, curSample |-> 0, remaining |-> 0,
            writerAtStart |-> FALSE, noRegionsAtStart |-> FALSE,
            sequenceGoneAtStart |-> FALSE]

IdlePCtl == [pc |-> "idle", region |-> "r1"]

\* ARA::PlugIn::PlaybackRenderer: the list of regions
RendererSet(regs) == { r \in Regions : regs[r] > 0 }
addPlaybackRegion(regs, r)    == [regs EXCEPT ![r] = @ + 1]
removePlaybackRegion(regs, r) == [regs EXCEPT ![r] = IF @ > 0 THEN @ - 1 ELSE 0]

\* ARARegionSequenceReader::ARARegionSequenceReader has run over a sequence
\* that holds region r1: every region of the sequence is in the renderer and
\* listened to, the renderer is prepared, the reader listens to the sequence.
InitRegion ==
    /\ seqAlive = TRUE
    /\ seqRegions = {"r1"}
    /\ seqListener = TRUE
    /\ regionAlive = [r \in Regions |-> TRUE]
    /\ regionListeners = seqRegions
    /\ prReaderAlive = TRUE
    /\ sequence = "seq"
    /\ rendererAlive = TRUE
    /\ rendererRegions = [r \in Regions |-> IF r \in seqRegions THEN 1 ELSE 0]
    /\ rendererPrepared = TRUE
    /\ prLock = NewLock
    /\ ppc = "idle"
    /\ pargs = NoPArgs
    /\ pdest = << >>
    /\ pret = "none"
    /\ pctl = [t \in CtlThreads |-> IdlePCtl]
    /\ removedAbsent = FALSE
    /\ addedTwice = FALSE
    /\ staleDeref = FALSE

SetPCtl(t, rec) == pctl' = [pctl EXCEPT ![t] = rec]
PGoTo(t, p)     == pctl' = [pctl EXCEPT ![t].pc = p]
PAllIdle        == \A u \in CtlThreads : pctl[u].pc = "idle"
PInDestructor(u) == pctl[u].pc \in {"pdtor", "pdtor_wait", "pdtor_locked"}

\* the thread is inside willRemovePlaybackRegionFromRegionSequence
InRemoveNotification(u) ==
    pctl[u].pc \in {"wrm", "wrm_wait", "wrm_locked", "wrm_release", "wrm_remove"}

preadVars == << ppc, pargs, pdest, pret >>

\* ------------------------------------------------ destruction of a region
\* The host announces the destruction of a region to the region's listeners.
HostDestroyRegion(t) ==
    /\ pctl[t].pc = "idle"
    /\ PAllIdle
    /\ prReaderAlive
    /\ \E r \in Regions :
          /\ regionAlive[r]
          /\ regionAlive' = [regionAlive EXCEPT ![r] = FALSE]
          /\ IF r \in regionListeners
             THEN SetPCtl(t, [pc |-> "wdr", region |-> r])
             ELSE UNCHANGED pctl
    /\ UNCHANGED << seqAlive, seqRegions, seqListener, regionListeners,
                    prReaderAlive, sequence, rendererAlive, rendererRegions,
                    rendererPrepared, prLock, removedAbsent, addedTwice,
                    staleDeref, preadVars, srVars, fmtVars >>

\* The host announces the destruction of a region on one thread while
\* another thread may be delivering a notification of the sequence.
HostDestroyRegionConcurrently(t) ==
    /\ pctl[t].pc = "idle"
    /\ prReaderAlive
    /\ \A u \in CtlThreads : ~PInDestructor(u)
    /\ \E r \in Regions :
          /\ regionAlive[r]
          /\ \A u \in CtlThreads :
                pctl[u].pc = "idle" \/ pctl[u].region # r
                    \/ InRemoveNotification(u)
          /\ regionAlive' = [regionAlive EXCEPT ![r] = FALSE]
          /\ IF r \in regionListeners
             THEN SetPCtl(t, [pc |-> "wdr", region |-> r])
             ELSE UNCHANGED pctl
    /\ UNCHANGED << seqAlive, seqRegions, seqListener, regionListeners,
                    prReaderAlive, sequence, rendererAlive, rendererRegions,
                    rendererPrepared, prLock, removedAbsent, addedTwice,
                    staleDeref, preadVars, srVars, fmtVars >>

\* willDestroyPlaybackRegion up to the ScopedWriteLock: return unless the
\* renderer holds the region, else enter the write lock (blocking).
willDestroyPlaybackRegion(t) ==
    /\ pctl[t].pc \in {"wdr", "wdr_wait"}
    /\ IF pctl[t].pc = "wdr" /\ rendererRegions[pctl[t].region] = 0
       THEN /\ SetPCtl(t, IdlePCtl)
            /\ UNCHANGED prLock
       ELSE IF CanEnterWrite(prLock, t)
       THEN /\ prLock' = EnterWrite(IF pctl[t].pc = "wdr_wait"
                                    THEN StopWaiting(prLock) ELSE prLock, t)
            /\ PGoTo(t, "wdr_locked")
       ELSE /\ pctl[t].pc = "wdr"
            /\ prLock' = StartWaiting(prLock)
            /\ PGoTo(t, "wdr_wait")
    /\ UNCHANGED << seqAlive, seqRegions, seqListener, regionAlive,
                    regionListeners, prReaderAlive, sequence, rendererAlive,
                    rendererRegions, rendererPrepared, removedAbsent,
                    addedTwice, staleDeref, preadVars, srVars, fmtVars >>

\* the handler taking the region out of the renderer at once, before the
\* renderer's resources are released
willDestroyLockedRemovesFirst(t) ==
    /\ pctl[t].pc = "wdr_locked"
    /\ regionListeners' = regionListeners \ {pctl[t].region}
    /\ rendererRegions' = removePlaybackRegion(rendererRegions, pctl[t].region)
    /\ PGoTo(t, "wdr_release")
    /\ UNCHANGED << seqAlive, seqRegions, seqListener, regionAlive,
                    prReaderAlive, sequence, rendererAlive, rendererPrepared,
                    prLock, removedAbsent, addedTwice, staleDeref,
                    preadVars, srVars, fmtVars >>

\* willDestroyPlaybackRegion under the lock, first call:
\* playbackRegion->removeListener (this).
willDestroyPlaybackRegionLocked(t) ==
    /\ pctl[t].pc = "wdr_locked"
    /\ regionListeners' = regionListeners \ {pctl[t].region}
    /\ PGoTo(t, "wdr_release")
    /\ UNCHANGED << seqAlive, seqRegions, seqListener, regionAlive,
                    prReaderAlive, sequence, rendererAlive, rendererRegions,
                    rendererPrepared, prLock, removedAbsent, addedTwice,
                    staleDeref, preadVars, srVars, fmtVars >>

\* second call: playbackRenderer->releaseResources().
willDestroyReleaseResources(t) ==
    /\ pctl[t].pc = "wdr_release"
    /\ rendererPrepared' = FALSE
    /\ PGoTo(t, "wdr_remove")
    /\ UNCHANGED << seqAlive, seqRegions, seqListener, regionAlive,
                    regionListeners, prReaderAlive, sequence, rendererAlive,
                    rendererRegions, prLock, removedAbsent, addedTwice,
                    staleDeref, preadVars, srVars, fmtVars >>

\* third call: playbackRenderer->removePlaybackRegion (playbackRegion); the
\* scoped lock is released on return.
willDestroyRemovePlaybackRegion(t) ==
    /\ pctl[t].pc = "wdr_remove"
    /\ removedAbsent' = (removedAbsent \/ rendererRegions[pctl[t].region] = 0)
    /\ rendererRegions' = removePlaybackRegion(rendererRegions, pctl[t].region)
    /\ prLock' = ExitWrite(prLock)
    /\ SetPCtl(t, IdlePCtl)
    /\ UNCHANGED << seqAlive, seqRegions, seqListener, regionAlive,
                    regionListeners, prReaderAlive, sequence, rendererAlive,
                    rendererPrepared, addedTwice, staleDeref,
                    preadVars, srVars, fmtVars >>

\* ------------------------------------- removal of a region from the sequence
\* The host is about to take a region out of the sequence.
HostRemoveRegion(t) ==
    /\ pctl[t].pc = "idle"
    /\ PAllIdle
    /\ prReaderAlive
    /\ seqAlive
    /\ \E r \in seqRegions :
          IF seqListener
          THEN SetPCtl(t, [pc |-> "wrm", region |-> r]) /\ UNCHANGED seqRegions
          ELSE seqRegions' = seqRegions \ {r} /\ UNCHANGED pctl
    /\ UNCHANGED << seqAlive, seqListener, regionAlive, regionListeners,
                    prReaderAlive, sequence, rendererAlive, rendererRegions,
                    rendererPrepared, prLock, removedAbsent, addedTwice,
                    staleDeref, preadVars, srVars, fmtVars >>

\* willRemovePlaybackRegionFromRegionSequence up to the ScopedWriteLock:
\* return unless the sequence holds the region, else enter the write lock.
willRemovePlaybackRegionFromRegionSequence(t) ==
    /\ pctl[t].pc \in {"wrm", "wrm_wait"}
    /\ IF pctl[t].pc = "wrm" /\ pctl[t].region \notin seqRegions
       THEN /\ SetPCtl(t, IdlePCtl)
            /\ UNCHANGED prLock
       ELSE IF CanEnterWrite(prLock, t)
       THEN /\ prLock' = EnterWrite(IF pctl[t].pc = "wrm_wait"
                                    THEN StopWaiting(prLock) ELSE prLock, t)
            /\ PGoTo(t, "wrm_locked")
       ELSE /\ pctl[t].pc = "wrm"
            /\ prLock' = StartWaiting(prLock)
            /\ PGoTo(t, "wrm_wait")
    /\ UNCHANGED << seqAlive, seqRegions, seqListener, regionAlive,
                    regionListeners, prReaderAlive, sequence, rendererAlive,
                    rendererRegions, rendererPrepared, removedAbsent,
                    addedTwice, staleDeref, preadVars, srVars, fmtVars >>

\* willRemovePlaybackRegionFromRegionSequence under the lock, first call:
\* playbackRegion->removeListener (this).
willRemovePlaybackRegionFromRegionSequenceLocked(t) ==
    /\ pctl[t].pc = "wrm_locked"
    /\ regionListeners' = regionListeners \ {pctl[t].region}
    /\ PGoTo(t, "wrm_release")
    /\ UNCHANGED << seqAlive, seqRegions, seqListener, regionAlive,
                    prReaderAlive, sequence, rendererAlive, rendererRegions,
                    rendererPrepared, prLock, removedAbsent, addedTwice,
                    staleDeref, preadVars, srVars, fmtVars >>

\* second call: playbackRenderer->releaseResources().
willRemoveReleaseResources(t) ==
    /\ pctl[t].pc = "wrm_release"
    /\ rendererPrepared' = FALSE
    /\ PGoTo(t, "wrm_remove")
    /\ UNCHANGED << seqAlive, seqRegions, seqListener, regionAlive,
                    regionListeners, prReaderAlive, sequence, rendererAlive,
                    rendererRegions, prLock, removedAbsent, addedTwice,
                    staleDeref, preadVars, srVars, fmtVars >>

\* third call: playbackRenderer->removePlaybackRegion (playbackRegion); the
\* scoped lock is released on return and the host takes the region out of
\* the sequence.
willRemoveRemovePlaybackRegion(t) ==
    /\ pctl[t].pc = "wrm_remove"
    /\ removedAbsent' = (removedAbsent \/ rendererRegions[pctl[t].region] = 0)
    /\ rendererRegions' = removePlaybackRegion(rendererRegions, pctl[t].region)
    /\ prLock' = ExitWrite(prLock)
    /\ seqRegions' = seqRegions \ {pctl[t].region}
    /\ SetPCtl(t, IdlePCtl)
    /\ UNCHANGED << seqAlive, seqListener, regionAlive, regionListeners,
                    prReaderAlive, sequence, rendererAlive, rendererPrepared,
                    addedTwice, staleDeref, preadVars, srVars, fmtVars >>

\* ------------------------------------- addition of a region to the sequence
\* The host has put a live region into the sequence.
HostAddRegion(t) ==
    /\ pctl[t].pc = "idle"
    /\ PAllIdle
    /\ prReaderAlive
    /\ seqAlive
    /\ \E r \in Regions \ seqRegions :
          /\ regionAlive[r]
          /\ seqRegions' = seqRegions \cup {r}
          /\ IF seqListener
             THEN SetPCtl(t, [pc |-> "add", region |-> r])
             ELSE UNCHANGED pctl
    /\ UNCHANGED << seqAlive, seqListener, regionAlive, regionListeners,
                    prReaderAlive, sequence, rendererAlive, rendererRegions,
                    rendererPrepared, prLock, removedAbsent, addedTwice,
                    staleDeref, preadVars, srVars, fmtVars >>

\* didAddPlaybackRegionToRegionSequence up to the ScopedWriteLock.
didAddPlaybackRegionToRegionSequence(t) ==
    /\ pctl[t].pc \in {"add", "add_wait"}
    /\ IF pctl[t].pc = "add" /\ pctl[t].region \notin seqRegions
       THEN /\ SetPCtl(t, IdlePCtl)
            /\ UNCHANGED prLock
       ELSE IF CanEnterWrite(prLock, t)
       THEN /\ prLock' = EnterWrite(IF pctl[t].pc = "add_wait"
                                    THEN StopWaiting(prLock) ELSE prLock, t)
            /\ PGoTo(t, "add_locked")
       ELSE /\ pctl[t].pc = "add"
            /\ prLock' = StartWaiting(prLock)
            /\ PGoTo(t, "add_wait")
    /\ UNCHANGED << seqAlive, seqRegions, seqListener, regionAlive,
                    regionListeners, prReaderAlive, sequence, rendererAlive,
                    rendererRegions, rendererPrepared, removedAbsent,
                    addedTwice, staleDeref, preadVars, srVars, fmtVars >>

\* the handler giving the region to the renderer first, before the
\* renderer's resources are released
didAddLockedAddsToRendererFirst(t) ==
    /\ pctl[t].pc = "add_locked"
    /\ regionListeners' = regionListeners \cup {pctl[t].region}
    /\ rendererRegions' = addPlaybackRegion(rendererRegions, pctl[t].region)
    /\ PGoTo(t, "add_release")
    /\ UNCHANGED << seqAlive, seqRegions, seqListener, regionAlive,
                    prReaderAlive, sequence, rendererAlive, rendererPrepared,
                    prLock, removedAbsent, addedTwice, staleDeref,
                    preadVars, srVars, fmtVars >>

\* didAddPlaybackRegionToRegionSequence under the lock, first call:
\* playbackRegion->addListener (this).
didAddPlaybackRegionToRegionSequenceLocked(t) ==
    /\ pctl[t].pc = "add_locked"
    /\ regionListeners' = regionListeners \cup {pctl[t].region}
    /\ PGoTo(t, "add_release")
    /\ UNCHANGED << seqAlive, seqRegions, seqListener, regionAlive,
                    prReaderAlive, sequence, rendererAlive, rendererRegions,
                    rendererPrepared, prLock, removedAbsent, addedTwice,
                    staleDeref, preadVars, srVars, fmtVars >>

\* second call: playbackRenderer->releaseResources().
didAddReleaseResources(t) ==
    /\ pctl[t].pc = "add_release"
    /\ rendererPrepared' = FALSE
    /\ PGoTo(t, "add_renderer")
    /\ UNCHANGED << seqAlive, seqRegions, seqListener, regionAlive,
                    regionListeners, prReaderAlive, sequence, rendererAlive,
                    rendererRegions, prLock, removedAbsent, addedTwice,
                    staleDeref, preadVars, srVars, fmtVars >>

\* third call: playbackRenderer->addPlaybackRegion (playbackRegion); the
\* scoped lock is released on return.
didAddPlaybackRegion(t) ==
    /\ pctl[t].pc = "add_renderer"
    /\ addedTwice' = (addedTwice \/ rendererRegions[pctl[t].region] > 0)
    /\ rendererRegions' = addPlaybackRegion(rendererRegions, pctl[t].region)
    /\ prLock' = ExitWrite(prLock)
    /\ SetPCtl(t, IdlePCtl)
    /\ UNCHANGED << seqAlive, seqRegions, seqListener, regionAlive,
                    regionListeners, prReaderAlive, sequence, rendererAlive,
                    rendererPrepared, removedAbsent, staleDeref,
                    preadVars, srVars, fmtVars >>

\* ------------------------------------------------ destruction of the sequence
\* willDestroyRegionSequence that leaves the sequence pointer set
willDestroyRegionSequenceKeepsPointer(t) ==
    /\ pctl[t].pc = "idle"
    /\ PAllIdle
    /\ prReaderAlive
    /\ seqAlive
    /\ seqAlive' = FALSE
    /\ IF seqListener
       THEN seqListener' = FALSE
       ELSE UNCHANGED seqListener
    /\ UNCHANGED << seqRegions, regionAlive, regionListeners, prReaderAlive,
                    sequence, rendererAlive, rendererRegions, rendererPrepared,
                    prLock, pctl, removedAbsent, addedTwice, staleDeref,
                    preadVars, srVars, fmtVars >>

\* willDestroyRegionSequence: removeListener, sequence = nullptr (no lock is
\* taken); the host then deletes the sequence.
willDestroyRegionSequence(t) ==
    /\ pctl[t].pc = "idle"
    /\ PAllIdle
    /\ prReaderAlive
    /\ seqAlive
    /\ seqAlive' = FALSE
    /\ IF seqListener
       THEN seqListener' = FALSE /\ sequence' = "null"
       ELSE UNCHANGED << seqListener, sequence >>
    /\ UNCHANGED << seqRegions, regionAlive, regionListeners, prReaderAlive,
                    rendererAlive, rendererRegions, rendererPrepared, prLock,
                    pctl, removedAbsent, addedTwice, staleDeref, preadVars, srVars, fmtVars >>

\* -------------------------------------------------- destruction of the reader
BeginDestroyRegionReader(t) ==
    /\ pctl[t].pc = "idle"
    /\ PAllIdle
    /\ prReaderAlive
    /\ PGoTo(t, "pdtor")
    /\ UNCHANGED << seqAlive, seqRegions, seqListener, regionAlive,
                    regionListeners, prReaderAlive, sequence, rendererAlive,
                    rendererRegions, rendererPrepared, prLock, removedAbsent,
                    addedTwice, staleDeref, preadVars, srVars, fmtVars >>

\* the destructors without the ScopedWriteLock of ~ARAPlaybackRegionReader
DestroyRegionReaderNoLock(t) ==
    /\ pctl[t].pc \in {"pdtor", "pdtor_wait"}
    /\ IF sequence # "null"
       THEN /\ seqListener' = FALSE
            /\ staleDeref' = (staleDeref \/ ~seqAlive)
       ELSE UNCHANGED << seqListener, staleDeref >>
    /\ PGoTo(t, "pdtor_locked")
    /\ UNCHANGED << seqAlive, seqRegions, regionAlive, regionListeners,
                    prReaderAlive, sequence, rendererAlive, rendererRegions,
                    rendererPrepared, prLock, removedAbsent, addedTwice,
                    preadVars, srVars, fmtVars >>

\* ~ARARegionSequenceReader (removeListener on the sequence if the pointer is
\* set), then ~ARAPlaybackRegionReader up to its ScopedWriteLock.
DestroyRegionReader(t) ==
    /\ pctl[t].pc \in {"pdtor", "pdtor_wait"}
    /\ IF sequence # "null"
       THEN /\ seqListener' = FALSE
            /\ staleDeref' = (staleDeref \/ ~seqAlive)
       ELSE UNCHANGED << seqListener, staleDeref >>
    /\ IF CanEnterWrite(prLock, t)
       THEN /\ prLock' = EnterWrite(IF pctl[t].pc = "pdtor_wait"
                                    THEN StopWaiting(prLock) ELSE prLock, t)
            /\ PGoTo(t, "pdtor_locked")
       ELSE /\ pctl[t].pc = "pdtor"
            /\ prLock' = StartWaiting(prLock)
            /\ PGoTo(t, "pdtor_wait")
    /\ UNCHANGED << seqAlive, seqRegions, regionAlive, regionListeners,
                    prReaderAlive, sequence, rendererAlive, rendererRegions,
                    rendererPrepared, removedAbsent, addedTwice, preadVars, srVars, fmtVars >>

\* ~ARAPlaybackRegionReader under the lock: removeListener on every region of
\* the renderer, delete the renderer; the scoped lock is released.
DestroyRegionReaderLocked(t) ==
    /\ pctl[t].pc = "pdtor_locked"
    /\ regionListeners' = regionListeners \ RendererSet(rendererRegions)
    /\ staleDeref' = (staleDeref \/
                      \E r \in RendererSet(rendererRegions) : ~regionAlive[r])
    /\ rendererAlive' = FALSE
    /\ prLock' = ExitWrite(prLock)
    /\ prReaderAlive' = FALSE
    /\ SetPCtl(t, IdlePCtl)
    /\ UNCHANGED << seqAlive, seqRegions, seqListener, regionAlive, sequence,
                    rendererRegions, rendererPrepared, removedAbsent,
                    addedTwice, preadVars, srVars, fmtVars >>

\* ---------------------------------------- ARAPlaybackRegionReader::readSamples
\* A channel buffer is known by the writes made to it, each
\* [kind, from, len, pos]: len frames starting at frame `from`.
ClearWrite(numSamples) ==
    [kind |-> "clear", from |-> 0, len |-> numSamples, pos |-> 0]

RenderWrite(offset, numSliceSamples, startSample) ==
    [kind |-> "render", from |-> offset, len |-> numSliceSamples,
     pos |-> startSample]

\* a slice that is the whole remainder, whatever the block size
jminTakesAll(a, b) == a

jmin(a, b) == IF a < b THEN a ELSE b

pctlVars == << seqAlive, seqRegions, seqListener, regionAlive,
               regionListeners, prReaderAlive, sequence, rendererAlive,
               rendererRegions, rendererPrepared, pctl, removedAbsent,
               addedTwice, staleDeref >>

\* The call and lock.tryEnterRead(): on failure clear every channel and
\* return false.
prReadSamplesTryEnterRead ==
    /\ ppc = "idle"
    /\ prReaderAlive
    /\ \A u \in CtlThreads : ~PInDestructor(u)
    /\ \E numDestChannels \in 1 .. MaxDestChannels,
          startOffsetInDestBuffer \in 0 .. 1,
          startSampleInFile \in 0 .. 1,
          numSamples \in ReadCounts :
          LET args == [numDestChannels |-> numDestChannels,
                       startOffsetInDestBuffer |-> startOffsetInDestBuffer,
                       startSampleInFile |-> startSampleInFile,
                       numSamples |-> numSamples,
                       curOffset |-> startOffsetInDestBuffer,
                       curSample |-> startSampleInFile,
                       remaining |-> numSamples,
                       writerAtStart |->
                           prLock.numWriters + prLock.numWaitingWriters > 0,
                       noRegionsAtStart |->
                           RendererSet(rendererRegions) = {},
                       sequenceGoneAtStart |-> ~seqAlive]
          IN  /\ pargs' = args
              /\ IF TryEnterReadOK(prLock, AudioThread)
                 THEN /\ prLock' = EnterRead(prLock, AudioThread)
                      /\ pdest' = << >>
                      /\ ppc' = "loop"
                      /\ UNCHANGED pret
                 ELSE /\ pdest' = << ClearWrite(numSamples) >>
                      /\ pret' = "false"
                      /\ ppc' = "done"
                      /\ UNCHANGED prLock
    /\ UNCHANGED << pctlVars, srVars, fmtVars >>

\* One turn of the loop: processBlock on the next slice.
prReadSamplesProcessBlock ==
    /\ ppc = "loop"
    /\ pargs.remaining > 0
    /\ LET numSliceSamples == jmin(pargs.remaining, MaxSamplesPerBlock)
       IN  /\ pdest' = Append(pdest, RenderWrite(pargs.curOffset,
                                                 numSliceSamples,
                                                 pargs.curSample))
           /\ pargs' = [pargs EXCEPT
                           !.remaining = @ - numSliceSamples,
                           !.curOffset = @ + numSliceSamples,
                           !.curSample = @ + numSliceSamples]
    /\ UNCHANGED << ppc, pret, prLock, pctlVars, srVars, fmtVars >>

\* The loop is over: lock.exitRead() and return true.
prReadSamplesExitRead ==
    /\ ppc = "loop"
    /\ pargs.remaining <= 0
    /\ prLock' = ExitRead(prLock, AudioThread)
    /\ pret' = "true"
    /\ ppc' = "done"
    /\ UNCHANGED << pargs, pdest, pctlVars, srVars, fmtVars >>

\* The caller takes the result.
prReadSamplesReturn ==
    /\ ppc = "done"
    /\ ppc' = "idle"
    /\ pargs' = NoPArgs
    /\ pdest' = << >>
    /\ pret' = "none"
    /\ UNCHANGED << prLock, pctlVars, srVars, fmtVars >>

\* ------------------------- ARAPlaybackRegionReader::ARAPlaybackRegionReader
\* the rate assumed when no region yields one
DefaultSampleRate == 44100

SampleRates == {44100, 48000}

\* a region as the constructor sees it: the rate and channel count of its
\* source and its end in playback time
RegionInfos ==
    [rate : SampleRates, channels : 1 .. SrcChannels, endTime : 0 .. MaxEndTime]

RegionLists ==
    UNION { [1 .. n -> RegionInfos] : n \in 0 .. MaxRegionsInList }

jmax(a, b) == IF a < b THEN b ELSE a

\* ARAPlaybackRegion::getEndInPlaybackSamples (sampleRate)
getEndInPlaybackSamples(region, rate) == region.endTime * rate

\* the loop taking the rate of whichever region it visits
ctorRateLastWins(current, region) == region.rate

\* if (sampleRate == 0.0) sampleRate = source->getSampleRate();
ctorRate(current, region) == IF current = 0 THEN region.rate ELSE current

\* the constructor is entered with the regions `regs`, its field
\* initialisers have run
InitFormat(regs) ==
    /\ playbackRegions = regs
    /\ ctorPc = "loop"
    /\ ctorIndex = 0
    /\ sampleRate = 0
    /\ numChannels = 1
    /\ lengthInSamples = 0
    /\ ctorAdded = 0
    /\ preparedWith = << >>

\* one turn of the loop over playbackRegions
ctorVisitRegion ==
    /\ ctorPc = "loop"
    /\ ctorIndex < Len(playbackRegions)
    /\ LET region == playbackRegions[ctorIndex + 1]
           rate   == ctorRate(sampleRate, region)
       IN  /\ sampleRate' = rate
           /\ numChannels' = jmax(numChannels, region.channels)
           /\ lengthInSamples' =
                  jmax(lengthInSamples, getEndInPlaybackSamples(region, rate))
    /\ ctorAdded' = ctorAdded + 1
    /\ ctorIndex' = ctorIndex + 1
    /\ UNCHANGED << playbackRegions, ctorPc, preparedWith, srVars, prVars >>

\* after the loop: the default rate if none was found, then prepareToPlay
ctorPrepareToPlay ==
    /\ ctorPc = "loop"
    /\ ctorIndex = Len(playbackRegions)
    /\ sampleRate' = (IF sampleRate = 0 THEN DefaultSampleRate ELSE sampleRate)
    /\ preparedWith' = << sampleRate', MaxSamplesPerBlock >>
    /\ ctorPc' = "done"
    /\ UNCHANGED << playbackRegions, ctorIndex, numChannels, lengthInSamples,
                    ctorAdded, srVars, prVars >>

\* the constructor has run over the one region of the sequence
InitFormatDone ==
    LET region == [rate |-> 48000, channels |-> 1, endTime |-> MaxEndTime]
    IN  /\ playbackRegions = << region >>
        /\ ctorPc = "done"
        /\ ctorIndex = 1
        /\ sampleRate = ctorRate(0, region)
        /\ numChannels = jmax(1, region.channels)
        /\ lengthInSamples = jmax(0, getEndInPlaybackSamples(region, region.rate))
        /\ ctorAdded = 1
        /\ preparedWith = << region.rate, MaxSamplesPerBlock >>

\* ------------------------------------------------------------ specification
NextSource ==
    \/ HostBeginEnable(HostThread)
    \/ willEnableAudioSourceSamplesAccess(HostThread)
    \/ HostSetSampleAccessEnabled(HostThread)
    \/ didEnableAudioSourceSamplesAccess(HostThread)
    \/ HostUpdateContent(OtherThread)
    \/ doUpdateAudioSourceContent(OtherThread)
    \/ doUpdateAudioSourceContentLocked(OtherThread)
    \/ HostDestroySource(HostThread)
    \/ willDestroyAudioSource(HostThread)
    \/ willDestroyAudioSourceLocked(HostThread)
    \/ BeginDestroyReader(OtherThread)
    \/ DestroyReader(OtherThread)
    \/ DestroyReaderLocked(OtherThread)
    \/ readSamplesTryEnterRead
    \/ readSamplesCheckReader
    \/ readSamplesCallHost
    \/ readSamplesExitRead
    \/ readSamplesReturn

NextRegion ==
    \/ HostDestroyRegion(HostThread)
    \/ willDestroyPlaybackRegion(HostThread)
    \/ willDestroyPlaybackRegionLocked(HostThread)
    \/ willDestroyReleaseResources(HostThread)
    \/ willDestroyRemovePlaybackRegion(HostThread)
    \/ HostRemoveRegion(HostThread)
    \/ willRemovePlaybackRegionFromRegionSequence(HostThread)
    \/ willRemovePlaybackRegionFromRegionSequenceLocked(HostThread)
    \/ willRemoveReleaseResources(HostThread)
    \/ willRemoveRemovePlaybackRegion(HostThread)
    \/ HostAddRegion(HostThread)
    \/ didAddPlaybackRegionToRegionSequence(HostThread)
    \/ didAddPlaybackRegionToRegionSequenceLocked(HostThread)
    \/ didAddReleaseResources(HostThread)
    \/ didAddPlaybackRegion(HostThread)
    \/ willDestroyRegionSequence(HostThread)
    \/ BeginDestroyRegionReader(OtherThread)
    \/ DestroyRegionReader(OtherThread)
    \/ DestroyRegionReaderLocked(OtherThread)
    \/ prReadSamplesTryEnterRead
    \/ prReadSamplesProcessBlock
    \/ prReadSamplesExitRead
    \/ prReadSamplesReturn

\* the source reader when readers are constructed, and the source may be
\* destroyed, at any moment of a transition
NextSourceLifecycle ==
    \/ HostBeginEnable(HostThread)
    \/ HostBeginEnableUnobserved(HostThread)
    \/ willEnableAudioSourceSamplesAccess(HostThread)
    \/ HostSetSampleAccessEnabled(HostThread)
    \/ HostEndEnable(HostThread)
    \/ HostEndEnableUnobserved(HostThread)
    \/ HostDestroySource(HostThread)
    \/ HostDestroySourceInTransition(HostThread)
    \/ willDestroyAudioSource(HostThread)
    \/ willDestroyAudioSourceLocked(HostThread)
    \/ HostUpdateContent(OtherThread)
    \/ doUpdateAudioSourceContent(OtherThread)
    \/ doUpdateAudioSourceContentLocked(OtherThread)
    \/ BeginDestroyReader(OtherThread)
    \/ DestroyReader(OtherThread)
    \/ DestroyReaderLocked(OtherThread)
    \/ ARAAudioSourceReader(OtherThread)
    \/ readSamplesTryEnterRead
    \/ readSamplesCheckReader
    \/ readSamplesCallHost
    \/ readSamplesExitRead
    \/ readSamplesReturn

Init == InitSource /\ InitRegion /\ InitFormatDone

NextFormat ==
    \/ ctorVisitRegion
    \/ ctorPrepareToPlay

\* the region readers do not depend on the source reader's sample width
InitForRegion == Init /\ sampleAccessEnabled /\ bitsPerSample = 32

\* the source reader with its source, and the region readers with their
\* sequence, are separate objects: each is explored on its own
SpecSource == Init /\ [][NextSource]_vars
SpecRegion == InitForRegion /\ [][NextRegion]_vars
SpecSourceLifecycle == Init /\ [][NextSourceLifecycle]_vars

\* the region readers when the host delivers the destruction of a region on a
\* thread of its own, concurrently with the notifications of the sequence
NextRegionConcurrent ==
    \/ NextRegion
    \/ HostDestroyRegionConcurrently(OtherThread)
    \/ willDestroyPlaybackRegion(OtherThread)
    \/ willDestroyPlaybackRegionLocked(OtherThread)
    \/ willDestroyReleaseResources(OtherThread)
    \/ willDestroyRemovePlaybackRegion(OtherThread)

SpecRegionConcurrent == InitForRegion /\ [][NextRegionConcurrent]_vars

\* the constructor of a region reader, run over every list of regions
InitForFormat ==
    /\ InitSource /\ sampleAccessEnabled /\ bitsPerSample = 32
    /\ InitRegion
    /\ \E regs \in RegionLists : InitFormat(regs)

SpecFormat == InitForFormat /\ [][NextFormat]_vars

\* =========================================================================
\* Properties
\* =========================================================================
\* the bytes of frame f of a channel of samples of `bits` bits
FrameBytes(bits, f) ==
    { f * BytesPerSample(bits) + b : b \in 1 .. BytesPerSample(bits) }

\* every non-null channel is zero over the requested frames and untouched
\* elsewhere
SilentOverSpan(d, bits, args) ==
    /\ Len(d) = args.numDestChannels
    /\ \A c \in 1 .. Len(d) :
          \/ d[c].isNull
          \/ \A f \in 0 .. BufFrames - 1 : \A i \in FrameBytes(bits, f) :
                d[c].bytes[i] =
                   IF f >= args.startOffsetInDestBuffer
                      /\ f < args.startOffsetInDestBuffer + args.numSamples
                   THEN ZeroByte ELSE StaleByte

\* C1: a read invokes the Host Accessor only while the accessor exists and no
\* writer holds the lock, and the accessor is neither created nor destroyed
\* while the audio thread holds the read lock (between a successful
\* tryEnterRead and the exitRead).
C1_AccessorStableUnderReadLock ==
    /\ [](rpc \in {"check", "call", "exit"} => lock.numWriters = 0)
    /\ [](rpc \in {"call", "exit"} => araHostReader # "null")
    /\ [][lock.readers[AudioThread] > 0 => araHostReader' = araHostReader]_vars

\* a read got through to the accessor while the disabling notification waits
C1_Witness ==
    /\ rpc = "exit"
    /\ rargs.cause = "read"
    /\ ctl[HostThread].pc = "will_wait"
    /\ ~ctl[HostThread].enable

\* C2: a Source Reader read that fails to get the read lock, or finds no
\* accessor, returns false with every non-null destination channel zeroed
\* over numSamples frames from startOffsetInDestBuffer (and nothing else
\* written); the outcome is the same function of the arguments in both cases.
C2_FailedReadIsSilent ==
    (rpc = "done" /\ rargs.cause \in {"contended", "noaccessor"}) =>
        /\ rret = "false"
        /\ SilentOverSpan(dest, bitsPerSample, rargs)

\* a read without accessor: 64-bit samples, one frame at offset 1, a null and
\* a non-null channel
C2_Witness ==
    /\ rpc = "done"
    /\ rargs.cause = "noaccessor"
    /\ bitsPerSample = 64
    /\ rargs.startOffsetInDestBuffer = 1
    /\ rargs.numSamples = 1
    /\ \E c \in 1 .. Len(dest) : dest[c].isNull
    /\ \E c \in 1 .. Len(dest) : ~dest[c].isNull

\* C3 (as claimed): after enabled -> disabled -> enabled with reads in
\* between, the enabling transition completes: whenever the enabling
\* notification waits for the write lock while no read is in progress and no
\* other writer holds the lock, it can take the lock.
C3_EnableCompletes ==
    (/\ ctl[HostThread].pc = "will_wait"
     /\ ctl[HostThread].enable
     /\ disabledOnce
     /\ rpc = "idle"
     /\ lock.numWriters = 0)
        => CanEnterWrite(lock, HostThread)

\* C4 (as claimed): with no handler running, an accessor exists iff the
\* source is enabled and not destroyed.
C4_AccessorIffEnabled ==
    (AllIdle /\ readerAlive) =>
        (araHostReader # "null" <=> (sampleAccessEnabled /\ srcAlive))

\* C4 (amended): with no handler running, an accessor exists iff the source
\* is enabled, not destroyed, and no content update that changed the signal
\* was handled since the accessor was last created.
C4_AccessorIffEnabledAndNotInvalidated ==
    (AllIdle /\ readerAlive) =>
        (araHostReader # "null" <=>
            (sampleAccessEnabled /\ srcAlive /\ ~invalidatedByUpdate))

\* enabled, alive, and the accessor is gone after a content update
C4_Witness ==
    /\ AllIdle /\ readerAlive
    /\ sampleAccessEnabled /\ srcAlive
    /\ invalidatedByUpdate
    /\ araHostReader = "null"

\* C8: once willDestroyAudioSource has run, the reader is no listener of the
\* source, holds no accessor and no source pointer (so none is recreated),
\* every read begun afterwards returns false with zeroed output, and the
\* destroyed source is never dereferenced.
C8_AfterSourceDestroyed ==
    /\ ~srcDerefAfterDestroy
    /\ (readerAlive /\ ~srcAlive) =>
          /\ ~srcListener
          /\ araHostReader = "null"
          /\ audioSourceBeingRead = "null"
    /\ (rpc = "done" /\ rargs.sourceGoneAtStart) =>
          /\ rret = "false"
          /\ SilentOverSpan(dest, bitsPerSample, rargs)

\* a read issued after the source was destroyed has returned
C8_Witness ==
    /\ rpc = "done"
    /\ rargs.sourceGoneAtStart
    /\ rargs.numSamples > 0
    /\ \E c \in 1 .. Len(dest) : ~dest[c].isNull

\* C9 (as claimed): the destructor and the source-destruction handler always
\* obtain the write lock: whenever one of them waits for it while no read is
\* in progress, it can take the lock.
C9_DestructionCompletes ==
    /\ (ctl[OtherThread].pc = "dtor_wait" /\ rpc = "idle")
          => CanEnterWrite(lock, OtherThread)
    /\ (ctl[HostThread].pc = "wds_wait" /\ rpc = "idle")
          => CanEnterWrite(lock, HostThread)

\* ------------------------------------------------------- region readers
\* what frame i of a destination channel holds after the writes
FrameAfter(writes, i) ==
    LET covering == { k \in 1 .. Len(writes) :
                        writes[k].from <= i /\ i < writes[k].from + writes[k].len }
    IN  IF covering = {} THEN "stale"
        ELSE LET last == CHOOSE k \in covering : \A j \in covering : j <= k
             IN  IF writes[last].kind = "clear" THEN "zero" ELSE "rendered"

\* the requested span of every destination channel is zero
RegionReadSilent ==
    \A i \in pargs.startOffsetInDestBuffer ..
             pargs.startOffsetInDestBuffer + pargs.numSamples - 1 :
        FrameAfter(pdest, i) = "zero"

prReadSamplesStep ==
    \/ prReadSamplesProcessBlock
    \/ prReadSamplesExitRead
    \/ prReadSamplesReturn

\* a call in progress can always take its next step, whatever the writers do
C5_ReadStepAlwaysEnabled == (ppc # "idle") => ENABLED prReadSamplesStep

\* C5 (as claimed): a read never waits on a writer, and a read issued while a
\* handler holds or awaits the write lock returns with silence and failure.
C5_ReadNeverWaits ==
    /\ (ppc # "idle") => ENABLED prReadSamplesStep
    /\ (ppc = "done" /\ pargs.writerAtStart) =>
          (pret = "false" /\ RegionReadSilent)

\* C6 (as claimed): a region-reader read issued during a writer transition
\* returns false and leaves numSamples frames from startOffsetInDestBuffer of
\* every channel zero, for every startOffsetInDestBuffer >= 0.
C6_ContendedRegionReadIsSilent ==
    (ppc = "done" /\ pargs.writerAtStart) =>
        /\ pret = "false"
        /\ RegionReadSilent

\* C7 (as claimed): once the regions were removed or destroyed, so that the
\* renderer holds none, every read of at least one frame returns false with
\* zeroed output.
C7_ReadAfterRemovalFails ==
    (ppc = "done" /\ pargs.noRegionsAtStart /\ pargs.numSamples > 0) =>
        (pret = "false" /\ RegionReadSilent)

\* C10 (as claimed): with no handler running, the renderer's regions are the
\* regions the reader listens to, and no region is added to or removed from
\* the renderer twice.
C10_RendererMatchesListeners ==
    /\ (PAllIdle /\ prReaderAlive) =>
          RendererSet(rendererRegions) = regionListeners
    /\ ~removedAbsent
    /\ ~addedTwice

\* C11: the write lock is held by the notifying thread from the return of
\* willEnableAudioSourceSamplesAccess until didEnableAudioSourceSamplesAccess
\* returns, for enabling and for disabling; a read issued inside that window
\* fails to enter the lock, returns false with the requested span zeroed,
\* and no read is at the accessor during the window.
C11_WriterHeldThroughTransition ==
    /\ \A u \in CtlThreads :
          ctl[u].pc \in {"flag", "did"} =>
              (lock.numWriters > 0 /\ lock.writerThreadId = u)
    /\ InTransitionWindow => rpc \in {"idle", "done"}
    /\ (rpc # "idle" /\ rargs.transitionAtStart) =>
          /\ rpc = "done"
          /\ rargs.cause = "contended"
          /\ rret = "false"
          /\ SilentOverSpan(dest, bitsPerSample, rargs)

\* a read of one frame issued inside an enabling transition has returned,
\* the transition still being under way
C11_Witness ==
    /\ rpc = "done"
    /\ rargs.transitionAtStart
    /\ rargs.numSamples > 0
    /\ \E c \in 1 .. Len(dest) : ~dest[c].isNull
    /\ ctl[HostThread].pc = "did"
    /\ ctl[HostThread].enable

\* C12 (as claimed): a step of the region-removed handler for a region that
\* is not registered with the renderer takes no lock and changes neither the
\* renderer nor the listener registration, and calls no removePlaybackRegion.
C12_RemoveOfDroppedRegionIsNoOp ==
    [][(/\ InRemoveNotification(HostThread)
        /\ rendererRegions[pctl[HostThread].region] = 0
        /\ pctl'[HostThread] # pctl[HostThread])
          => UNCHANGED << prLock, rendererRegions, rendererPrepared,
                          regionListeners, removedAbsent >>]_vars

\* the greatest element of a non-empty set of numbers
MaxOf(S) == CHOOSE x \in S : \A y \in S : y <= x

\* C13: a region reader built from regions 1..N reports the rate of the
\* first region, the greatest channel count and the greatest end position
\* counted in samples at that rate; built from no region it reports 44100.
C13_AggregateFormat ==
    (ctorPc = "done") =>
        LET N == Len(playbackRegions)
        IN  /\ (N = 0) => sampleRate = DefaultSampleRate
            /\ (N >= 1) =>
                  /\ sampleRate = playbackRegions[1].rate
                  /\ numChannels =
                        MaxOf({ playbackRegions[i].channels : i \in 1 .. N })
                  /\ lengthInSamples =
                        MaxOf({ playbackRegions[i].endTime * playbackRegions[1].rate
                                  : i \in 1 .. N })

\* two regions of different rates, the second with more channels, the first
\* ending later
C13_Witness ==
    /\ ctorPc = "done"
    /\ Len(playbackRegions) = 2
    /\ playbackRegions[1].rate # playbackRegions[2].rate
    /\ playbackRegions[1].channels < playbackRegions[2].channels
    /\ playbackRegions[1].endTime > playbackRegions[2].endTime

\* C14: a region-reader read that got the lock has made, when it returns,
\* exactly the renderer calls of back-to-back reads of the maximum block
\* size: call k renders at destination offset and file position advanced by
\* (k - 1) blocks, every call but the last renders a full block, the last
\* the non-empty remainder, the lengths add up to numSamples; the read lock
\* is held during the loop, released at the return, and the result is true.
C14_ChunkedRender ==
    /\ (ppc = "loop") => prLock.readers[AudioThread] = 1
    /\ (ppc = "done" /\ Len(pdest) > 0 /\ pdest[1].kind = "render") =>
          pret = "true"
    /\ (ppc = "done" /\ pret = "true") =>
          LET n == Len(pdest)
          IN  /\ prLock.readers[AudioThread] = 0
              /\ \A k \in 1 .. n :
                    /\ pdest[k].kind = "render"
                    /\ pdest[k].len > 0
                    /\ pdest[k].len <= MaxSamplesPerBlock
                    /\ pdest[k].from = pargs.startOffsetInDestBuffer
                                          + (k - 1) * MaxSamplesPerBlock
                    /\ pdest[k].pos = pargs.startSampleInFile
                                          + (k - 1) * MaxSamplesPerBlock
                    /\ (k < n) => pdest[k].len = MaxSamplesPerBlock
              /\ IF n = 0 THEN pargs.numSamples = 0
                 ELSE (n - 1) * MaxSamplesPerBlock + pdest[n].len
                          = pargs.numSamples

\* a read of two blocks and one frame, at offset 1 and position 1, is done
C14_Witness ==
    /\ ppc = "done"
    /\ pret = "true"
    /\ Len(pdest) = 3
    /\ pargs.startOffsetInDestBuffer = 1
    /\ pargs.startSampleInFile = 1

C16_ReturnsAccessorResult ==
    (rpc = "done" /\ rargs.cause \in {"read", "hostfailed"}) =>
        /\ rret = (IF rargs.cause = "read" THEN "true" ELSE "false")
        /\ lock.readers[AudioThread] = 0

\* the accessor failed on a read of one frame
C16_Witness ==
    /\ rpc = "done"
    /\ rargs.cause = "hostfailed"
    /\ rargs.numSamples > 0

\* what the claim says of the targets handed to the accessor, apart from
\* their not being null: one for every channel of the source, the caller's
\* buffer at the offset where the caller gave one, else the scratch buffer,
\* which is then at least destSize bytes long
TargetsForAllChannels ==
    (rpc = "exit") =>
        /\ Len(tmpPtrs) = SrcChannels
        /\ \A c \in 1 .. SrcChannels :
              IF c <= rargs.numDestChannels /\ ~dest[c].isNull
              THEN /\ tmpPtrs[c].kind = "dest"
                   /\ tmpPtrs[c].chan = c
                   /\ tmpPtrs[c].offset =
                          BytesPerSample(bitsPerSample)
                              * rargs.startOffsetInDestBuffer
              ELSE /\ tmpPtrs[c].kind = "dummy"
                   /\ dummySize >= BytesPerSample(bitsPerSample)
                                       * rargs.numSamples

\* C17 (as claimed): on the success path the accessor gets a non-null target
\* for every channel of the source, the caller's buffer at destOffset or the
\* scratch buffer, which is large enough and never shrinks.
C17_NonNullTargets ==
    /\ [](TargetsForAllChannels)
    /\ []((rpc = "exit") => \A c \in 1 .. SrcChannels : ~tmpPtrs[c].isNull)
    /\ [][dummySize' >= dummySize]_vars

\* C17 (amended): as claimed, the targets being non-null whenever the
\* requested byte count is positive.
C17_TargetsNonNullForPositiveCount ==
    /\ [](TargetsForAllChannels)
    /\ []((rpc = "exit" /\ rargs.numSamples > 0)
              => \A c \in 1 .. SrcChannels : ~tmpPtrs[c].isNull)
    /\ [][dummySize' >= dummySize]_vars

\* the accessor was called with the caller's buffer at offset 1 for one
\* channel and the scratch buffer for another
C17_Witness ==
    /\ rpc = "exit"
    /\ rargs.numSamples > 0
    /\ rargs.startOffsetInDestBuffer = 1
    /\ \E c \in 1 .. SrcChannels : tmpPtrs[c].kind = "dest"
    /\ \E c \in 1 .. SrcChannels : tmpPtrs[c].kind = "dummy"

\* C18 (as claimed): every successful tryEnterRead of a readSamples call is
\* matched by an exitRead before the call returns, whichever way it returns:
\* with no call in progress, or a call at its return, the audio thread holds
\* no read entry.
C18_ReadLockBalanced ==
    (rpc \in {"idle", "done"}) => lock.readers[AudioThread] = 0

\* C19 (as claimed): the membership test of the region-destroyed handler and
\* its removal are made under one hold of the write lock: the test is never
\* made while another thread holds the write lock, and when the handler is
\* about to remove the region the renderer still holds it, so that the
\* region is removed once.
C19_TestAndRemovalUnderOneLock ==
    /\ [](\A t \in CtlThreads :
            (pctl[t].pc \in {"wdr_locked", "wdr_release", "wdr_remove"}) =>
                rendererRegions[pctl[t].region] > 0)
    /\ [][\A t \in CtlThreads :
            (pctl[t].pc = "wdr" /\ pctl'[t].pc # "wdr") =>
                (prLock.numWriters = 0 \/ prLock.writerThreadId = t)]_vars

\* the thread is in the locked part of the region-added handler
InAddHandler(t) == pctl[t].pc \in {"add_locked", "add_release", "add_renderer"}

\* C20 (as claimed): in the region-added handler, under the write lock, the
\* renderer's resources are released first, then the reader becomes a
\* listener of the region, then the region is added to the renderer.
C20_ReleaseThenListenThenAdd ==
    [][\A t \in CtlThreads :
         InAddHandler(t) =>
           LET r == pctl[t].region
           IN  /\ prLock.numWriters = 1 /\ prLock.writerThreadId = t
               /\ (r \notin regionListeners /\ r \in regionListeners')
                     => (~rendererPrepared /\ rendererRegions[r] = 0)
               /\ (rendererRegions'[r] > rendererRegions[r])
                     => (~rendererPrepared /\ r \in regionListeners)]_vars

\* C20 (amended): in the region-added handler, under the write lock, the
\* reader becomes a listener of the region first, then the renderer's
\* resources are released, then the region is added to the renderer.
C20_ListenThenReleaseThenAdd ==
    [][\A t \in CtlThreads :
         InAddHandler(t) =>
           LET r == pctl[t].region
           IN  /\ prLock.numWriters = 1 /\ prLock.writerThreadId = t
               /\ (r \notin regionListeners /\ r \in regionListeners')
                     => rendererRegions[r] = 0
               /\ (rendererPrepared /\ ~rendererPrepared')
                     => (r \in regionListeners /\ rendererRegions[r] = 0)
               /\ (rendererRegions'[r] > rendererRegions[r])
                     => (~rendererPrepared /\ r \in regionListeners)]_vars

\* the handler has registered the listener and the renderer, still
\* prepared, does not hold the region yet
C20_Witness ==
    /\ pctl[HostThread].pc = "add_release"
    /\ pctl[HostThread].region \in regionListeners
    /\ rendererPrepared
    /\ rendererRegions[pctl[HostThread].region] = 0

\* the thread is in the locked part of the region-destroyed or of the
\* region-removed handler
InRemovalHandler(t) ==
    pctl[t].pc \in {"wdr_locked", "wdr_release", "wdr_remove",
                    "wrm_locked", "wrm_release", "wrm_remove"}

\* C21: in the region-destroyed and the region-removed handler, under the
\* write lock, the reader is deregistered as the region's listener first,
\* then the renderer's resources are released, then the region is removed
\* from the renderer; and the renderer's region set changes only while its
\* resources are released, which are not prepared again once released, so
\* that prepared resources are those of the set the renderer holds.
C21_DeregisterThenReleaseThenRemove ==
    /\ [][\A t \in CtlThreads :
            InRemovalHandler(t) =>
              LET r == pctl[t].region
              IN  /\ prLock.numWriters = 1 /\ prLock.writerThreadId = t
                  /\ (r \in regionListeners /\ r \notin regionListeners')
                        => /\ rendererRegions' = rendererRegions
                           /\ rendererPrepared' = rendererPrepared
                           /\ pctl[t].pc \in {"wdr_locked", "wrm_locked"}
                  /\ (rendererPrepared /\ ~rendererPrepared')
                        => /\ r \notin regionListeners
                           /\ rendererRegions' = rendererRegions
                  /\ (rendererRegions' # rendererRegions)
                        => /\ ~rendererPrepared
                           /\ r \notin regionListeners
                           /\ rendererRegions' =
                                  removePlaybackRegion(rendererRegions, r)]_vars
    /\ [][(rendererRegions' # rendererRegions)
            => (~rendererPrepared /\ ~rendererPrepared')]_vars
    /\ [][(~rendererPrepared) => ~rendererPrepared']_vars

\* the region-removed handler has deregistered the listener and released
\* the resources, and the renderer still holds the region
C21_Witness ==
    /\ pctl[HostThread].pc = "wrm_remove"
    /\ pctl[HostThread].region \notin regionListeners
    /\ ~rendererPrepared
    /\ rendererRegions[pctl[HostThread].region] > 0

\* the thread is inside doUpdateAudioSourceContent
InContentUpdate(t) == ctl[t].pc \in {"upd", "upd_wait", "upd_locked"}

\* C22: a content update whose flags say the signal is unchanged returns in
\* one step that leaves the accessor, the lock and the source pointer as
\* they were; any other content update changes the accessor only while its
\* thread is the one writer of the lock, leaves it null, and has left the
\* write lock when it returns; the source pointer is never changed.
C22_ContentUpdate ==
    /\ [](\A t \in CtlThreads :
            (ctl[t].pc = "upd_locked") =>
                /\ ~ctl[t].flagsUnchanged
                /\ lock.numWriters = 1 /\ lock.writerThreadId = t)
    /\ [][\A t \in CtlThreads :
            (InContentUpdate(t) /\ ctl'[t] # ctl[t]) =>
              /\ audioSourceBeingRead' = audioSourceBeingRead
              /\ IF ctl[t].flagsUnchanged
                 THEN /\ ctl'[t].pc = "idle"
                      /\ araHostReader' = araHostReader
                      /\ lock' = lock
                 ELSE /\ (araHostReader' # araHostReader)
                            => ctl[t].pc = "upd_locked"
                      /\ (ctl'[t].pc = "idle") =>
                            /\ ctl[t].pc = "upd_locked"
                            /\ araHostReader' = "null"
                            /\ lock'.numWriters = 0
                            /\ lock'.writerThreadId = NoThread]_vars

\* an update that changed the signal has returned: the accessor of the
\* enabled source is gone and nobody holds the write lock
C22_Witness ==
    /\ ctl[OtherThread].pc = "idle"
    /\ readerAlive /\ srcAlive /\ sampleAccessEnabled
    /\ invalidatedByUpdate
    /\ araHostReader = "null"
    /\ lock.numWriters = 0

\* C23: the step willDestroyRegionSequence leaves the reader deregistered
\* from the sequence and without sequence pointer, and changes neither the
\* renderer's regions, nor the region listener registrations, nor the lock;
\* from then on a read returns true exactly if no writer held or awaited
\* the lock when it was issued, as before; the region-destroyed handler for
\* a region the renderer holds does not return early and takes the region
\* out of the renderer; and the destructor neither dereferences the
\* sequence nor touches its listener list.
C23_AfterSequenceDestroyed ==
    /\ []((~seqAlive) => (sequence = "null" /\ ~seqListener))
    /\ [][(seqAlive /\ ~seqAlive')
            => UNCHANGED << rendererRegions, regionListeners, rendererPrepared,
                            rendererAlive, prLock, ppc, pargs, pdest, pret >>]_vars
    /\ []((ppc = "done") => (pret = "true" <=> ~pargs.writerAtStart))
    /\ [][\A t \in CtlThreads :
            (~seqAlive /\ pctl[t].pc = "wdr"
               /\ rendererRegions[pctl[t].region] > 0)
                  => pctl'[t].pc \in {"wdr", "wdr_wait", "wdr_locked"}]_vars
    /\ [][\A t \in CtlThreads :
            (~seqAlive /\ pctl[t].pc = "wdr_remove" /\ pctl'[t].pc = "idle")
                  => /\ pctl[t].region \notin RendererSet(rendererRegions')
                     /\ pctl[t].region \notin regionListeners']_vars
    /\ [][\A t \in CtlThreads :
            (~seqAlive /\ PInDestructor(t))
                  => UNCHANGED << seqListener, sequence, seqRegions >>
                     /\ (pctl[t].pc \in {"pdtor", "pdtor_wait"}
                            => staleDeref' = staleDeref)]_vars

\* the sequence is gone; a read issued afterwards has succeeded and the
\* region-destroyed handler is about to take the region out of the renderer
C23_Witness ==
    /\ ~seqAlive /\ prReaderAlive
    /\ ppc = "done" /\ pargs.sequenceGoneAtStart /\ pret = "true"
    /\ pargs.numSamples > 0
    /\ pctl[HostThread].pc = "wdr_remove"
    /\ rendererRegions[pctl[HostThread].region] > 0

\* C24: the destructor of a region reader removes the listeners and deletes
\* the renderer in a step taken as the one writer of the lock, with no read
\* between its tryEnterRead and its exitRead; once the reader is destroyed
\* it is the listener of no region and the renderer is deleted; no
\* destructor step follows the deletion, so the renderer is deleted once;
\* and every processBlock of a read is made on a renderer that exists.
C24_ReaderDestruction ==
    /\ [](\A t \in CtlThreads :
            (pctl[t].pc = "pdtor_locked") =>
                /\ prLock.numWriters = 1 /\ prLock.writerThreadId = t
                /\ \A u \in Threads : prLock.readers[u] = 0
                /\ ppc \in {"idle", "done"})
    /\ [][(rendererAlive' # rendererAlive
             \/ \E t \in CtlThreads :
                   PInDestructor(t) /\ regionListeners' # regionListeners)
            => /\ rendererAlive /\ ~rendererAlive'
               /\ \E t \in CtlThreads : pctl[t].pc = "pdtor_locked"
               /\ regionListeners' = {}
               /\ prLock'.numWriters = 0]_vars
    /\ []((~prReaderAlive) => (regionListeners = {} /\ ~rendererAlive))
    /\ []((~rendererAlive) =>
             (~prReaderAlive /\ \A t \in CtlThreads : ~PInDestructor(t)))
    /\ []((ppc = "loop") => rendererAlive)
    /\ [][(Len(pdest') > Len(pdest) /\ pdest'[Len(pdest')].kind = "render")
            => (rendererAlive /\ rendererAlive')]_vars

\* the reader is destroyed after region r1 was destroyed and region r2
\* added; a read of three blocks had been under way
C24_Witness ==
    /\ ~prReaderAlive /\ ~rendererAlive
    /\ ~regionAlive["r1"]
    /\ rendererRegions["r2"] > 0
    /\ regionListeners = {}
    /\ ppc = "done" /\ pret = "true" /\ Len(pdest) = 3

\* C25 (as claimed): with notifications delivered only to readers that are
\* listeners at that moment, readers being constructed and the source
\* destroyed also inside a transition, didEnableAudioSourceSamplesAccess
\* calls exitWrite only on a lock its thread has entered for writing, and
\* with no notification under way a reader that is alive does not hold
\* its write lock.
C25_WriteLockBalanced ==
    /\ \A t \in CtlThreads :
          (ctl[t].pc = "did" /\ srcListener /\ readerAlive) =>
              (lock.numWriters > 0 /\ lock.writerThreadId = t)
    /\ (AllIdle /\ readerAlive) => lock.numWriters = 0

\* C26 (as claimed): whenever didEnableAudioSourceSamplesAccess (enable =
\* true) is about to call recreate() the reader holds no accessor, the
\* enabling and disabling transitions of the source alternating.
C26_RecreateFindsNoAccessor ==
    \A t \in CtlThreads :
        (ctl[t].pc = "did" /\ ctl[t].enable /\ srcListener /\ readerAlive)
            => araHostReader = "null"

=============================================================================
